---- MODULE Spec2Model ----
(***************************************************************************)
(* A model of the 32-bit PowerPC ABI classifier of librustc_trans          *)
(* (trans/cabi_powerpc.rs): the layout calculator (ty_align, ty_size), the *)
(* argument and return classifiers, the integer-coercion builder and the   *)
(* signature classifier compute_abi_info, whose loop over the argument     *)
(* list threads the running byte offset.                                   *)
(***************************************************************************)
EXTENDS Integers, Sequences, FiniteSets, TLC

VARIABLES
    pc,           \* position in compute_abi_info: idle, loop, returned, panicked
    atys,         \* its argument types
    rty,          \* its return type
    ret_def,      \* whether the return type is meaningful
    ret_ty,       \* the return ArgType (line 164)
    arg_tys,      \* the argument ArgTypes pushed so far (line 171)
    offset,       \* the running offset (line 172)
    orig_offset,  \* classify_arg_ty's copy of the offset on entry (line 96)
    calls,        \* how many times compute_abi_info has been entered
    fn_pc,        \* position of a single application of a layout/coercion function
    fn_ty,        \* the type it is applied to
    fn_bits,      \* the bit size coerce_to_int is applied to
    fn_align,     \* ty_align(fn_ty)
    fn_size,      \* ty_size(fn_ty)
    fn_ints,      \* coerce_to_int(fn_bits)
    fn_cast       \* struct_ty(fn_ty)

vars == <<pc, atys, rty, ret_def, ret_ty, arg_tys, offset, orig_offset, calls,
          fn_pc, fn_ty, fn_bits, fn_align, fn_size, fn_ints, fn_cast>>

sig_vars == <<pc, atys, rty, ret_def, ret_ty, arg_tys, offset, orig_offset, calls>>

fn_vars == <<fn_pc, fn_ty, fn_bits, fn_align, fn_size, fn_ints, fn_cast>>

(***************************************************************************)
(* Bounds of the model.                                                    *)
(***************************************************************************)
MaxArgs == 2

MaxCalls == 2

MaxFields == 2

MaxLen == 2

MaxBits == 100

(***************************************************************************)
(* The Type algebra (llvm::TypeKind as seen through trans::type_::Type).   *)
(***************************************************************************)
IntegerTy(w) == [kind |-> "Integer", width |-> w]

PointerTy == [kind |-> "Pointer"]

FloatTy == [kind |-> "Float"]

DoubleTy == [kind |-> "Double"]

StructTy(els, is_packed) == [kind |-> "Struct", fields |-> els, packed |-> is_packed]

ArrayTy(el, n) == [kind |-> "Array", elt |-> el, len |-> n]

\* kinds the match arms of this file do not name
VectorTy == [kind |-> "Vector"]

void == [kind |-> "Void"]

i1 == IntegerTy(1)

i8 == IntegerTy(8)

i32 == IntegerTy(32)

None == <<>>

Some(x) == <<x>>

max(a, b) == IF a >= b THEN a ELSE b

min(a, b) == IF a <= b THEN a ELSE b

RECURSIVE BitAnd(_, _)
BitAnd(a, b) ==
    IF a = 0 \/ b = 0 THEN 0
    ELSE (a % 2) * (b % 2) + 2 * BitAnd(a \div 2, b \div 2)

(***************************************************************************)
(* Layout calculator.                                                      *)
(***************************************************************************)
\* the mutant of align_up_to for C8: it rounds down
align_down_to(off, a) == (off \div a) * a

align_up_to(off, a) == ((off + a - 1) \div a) * a

RECURSIVE ty_align(_), fold_align(_, _)
ty_align(ty) ==
    CASE ty.kind = "Integer" -> (ty.width + 7) \div 8
      [] ty.kind = "Pointer" -> 4
      [] ty.kind = "Float" -> 4
      [] ty.kind = "Double" -> 8
      [] ty.kind = "Struct" ->
            IF ty.packed THEN 1 ELSE fold_align(1, ty.fields)
      [] ty.kind = "Array" -> ty_align(ty.elt)

fold_align(a, str_tys) ==
    IF str_tys = <<>> THEN a
    ELSE fold_align(max(a, ty_align(Head(str_tys))), Tail(str_tys))

align(off, ty) == align_up_to(off, ty_align(ty))

RECURSIVE ty_size(_), fold_packed_size(_, _), fold_size(_, _)
\* the mutant of ty_size for C4: an unpacked struct gets no trailing padding
ty_size_no_tail_pad(ty) ==
    CASE ty.kind = "Integer" -> (ty.width + 7) \div 8
      [] ty.kind = "Pointer" -> 4
      [] ty.kind = "Float" -> 4
      [] ty.kind = "Double" -> 8
      [] ty.kind = "Struct" ->
            IF ty.packed THEN fold_packed_size(0, ty.fields)
            ELSE fold_size(0, ty.fields)
      [] ty.kind = "Array" -> ty.len * ty_size(ty.elt)

ty_size(ty) ==
    CASE ty.kind = "Integer" -> (ty.width + 7) \div 8
      [] ty.kind = "Pointer" -> 4
      [] ty.kind = "Float" -> 4
      [] ty.kind = "Double" -> 8
      [] ty.kind = "Struct" ->
            IF ty.packed THEN fold_packed_size(0, ty.fields)
            ELSE align(fold_size(0, ty.fields), ty)
      [] ty.kind = "Array" -> ty.len * ty_size(ty.elt)

fold_packed_size(s, str_tys) ==
    IF str_tys = <<>> THEN s
    ELSE fold_packed_size(s + ty_size(Head(str_tys)), Tail(str_tys))

fold_size(s, str_tys) ==
    IF str_tys = <<>> THEN s
    ELSE fold_size(align(s, Head(str_tys)) + ty_size(Head(str_tys)), Tail(str_tys))

\* ty_align(ty) reaches its `_ => panic!` arm
RECURSIVE ty_align_panics(_)
ty_align_panics(ty) ==
    CASE ty.kind \in {"Integer", "Pointer", "Float", "Double"} -> FALSE
      [] ty.kind = "Struct" ->
            IF ty.packed THEN FALSE
            ELSE \E i \in 1..Len(ty.fields) : ty_align_panics(ty.fields[i])
      [] ty.kind = "Array" -> ty_align_panics(ty.elt)
      [] OTHER -> TRUE

\* ty_size(ty) reaches a `_ => panic!` arm (its own, or ty_align's through align)
RECURSIVE ty_size_panics(_)
ty_size_panics(ty) ==
    CASE ty.kind \in {"Integer", "Pointer", "Float", "Double"} -> FALSE
      [] ty.kind = "Struct" ->
            IF ty.packed
            THEN \E i \in 1..Len(ty.fields) : ty_size_panics(ty.fields[i])
            ELSE \/ \E i \in 1..Len(ty.fields) :
                        \/ ty_align_panics(ty.fields[i])
                        \/ ty_size_panics(ty.fields[i])
                 \/ ty_align_panics(ty)
      [] ty.kind = "Array" -> ty_size_panics(ty.elt)
      [] OTHER -> TRUE

(***************************************************************************)
(* ArgType (trans::cabi): its two constructors and is_indirect.            *)
(***************************************************************************)
direct(ty, cast, pad, attr) ==
    [kind |-> "Direct", ty |-> ty, cast |-> cast, pad |-> pad, attr |-> attr]

indirect(ty, attr) ==
    [kind |-> "Indirect", ty |-> ty, cast |-> None, pad |-> None, attr |-> attr]

is_indirect(arg) == arg.kind = "Indirect"

(***************************************************************************)
(* Register eligibility, padding, coercion.                                *)
(***************************************************************************)
is_reg_ty(ty) == ty.kind \in {"Integer", "Pointer", "Float", "Double"}

padding_ty(a, off) == IF BitAnd(a - 1, off) > 0 THEN Some(i32) ELSE None

RECURSIVE push_i32(_, _)
push_i32(args, n) == IF n > 0 THEN push_i32(Append(args, i32), n - 1) ELSE args

\* the mutant of coerce_to_int for C5: the remainder chunk is not pushed
coerce_to_int_no_rem(size) == push_i32(<<>>, size \div 32)

coerce_to_int(size) ==
    LET args == push_i32(<<>>, size \div 32)
        r == size % 32
    IN  IF r > 0 THEN Append(args, IntegerTy(r)) ELSE args

struct_ty(ty) == StructTy(coerce_to_int(ty_size(ty) * 8), FALSE)

(***************************************************************************)
(* Argument and return classifiers.                                        *)
(***************************************************************************)
\* the mutant of classify_ret_ty for C3: every return value is passed directly
classify_ret_ty_direct(ty) ==
    direct(ty, None, None, IF ty = i1 THEN Some("ZExtAttribute") ELSE None)

classify_ret_ty(ty) ==
    IF is_reg_ty(ty)
    THEN direct(ty, None, None, IF ty = i1 THEN Some("ZExtAttribute") ELSE None)
    ELSE indirect(ty, Some("StructRetAttribute"))

\* the mutant of classify_arg_ty for C6: every integer is zero-extended
classify_arg_ty_zext_int(ty, off) ==
    LET size == ty_size(ty) * 8
        a == min(max(ty_align(ty), 4), 8)
        off1 == align_up_to(off, a)
        off2 == off1 + align_up_to(size, a * 8) \div 8
    IN  [ret |-> IF is_reg_ty(ty)
                 THEN direct(ty, None, None,
                             IF ty.kind = "Integer" THEN Some("ZExtAttribute")
                             ELSE None)
                 ELSE direct(ty, Some(struct_ty(ty)), padding_ty(a, off), None),
         offset |-> off2]

\* the mutant of classify_arg_ty for C7: an aggregate wider than two words is
\* passed by pointer
classify_arg_ty_byval(ty, off) ==
    LET size == ty_size(ty) * 8
        a == min(max(ty_align(ty), 4), 8)
        off1 == align_up_to(off, a)
        off2 == off1 + align_up_to(size, a * 8) \div 8
    IN  [ret |-> IF is_reg_ty(ty)
                 THEN direct(ty, None, None,
                             IF ty = i1 THEN Some("ZExtAttribute") ELSE None)
                 ELSE IF size > 64
                 THEN indirect(ty, None)
                 ELSE direct(ty, Some(struct_ty(ty)), padding_ty(a, off), None),
         offset |-> off2]

\* the mutant of classify_arg_ty for C10: the offset is not realigned before the
\* argument's size is added
classify_arg_ty_no_realign(ty, off) ==
    LET size == ty_size(ty) * 8
        a == min(max(ty_align(ty), 4), 8)
        off2 == off + align_up_to(size, a * 8) \div 8
    IN  [ret |-> IF is_reg_ty(ty)
                 THEN direct(ty, None, None,
                             IF ty = i1 THEN Some("ZExtAttribute") ELSE None)
                 ELSE direct(ty, Some(struct_ty(ty)), padding_ty(a, off), None),
         offset |-> off2]

\* ret is the ArgType returned, offset the value left in *offset
classify_arg_ty(ty, off) ==
    LET size == ty_size(ty) * 8
        a == min(max(ty_align(ty), 4), 8)
        off1 == align_up_to(off, a)
        off2 == off1 + align_up_to(size, a * 8) \div 8
    IN  [ret |-> IF is_reg_ty(ty)
                 THEN direct(ty, None, None,
                             IF ty = i1 THEN Some("ZExtAttribute") ELSE None)
                 ELSE direct(ty, Some(struct_ty(ty)), padding_ty(a, off), None),
         offset |-> off2]

\* classify_arg_ty panics: ty_size (line 97) or ty_align (line 98) does
classify_arg_panics(ty) == ty_size_panics(ty) \/ ty_align_panics(ty)

(***************************************************************************)
(* Inputs.                                                                 *)
(***************************************************************************)
RECURSIVE SeqsUpTo(_, _)
SeqsUpTo(S, n) ==
    IF n = 0 THEN {<<>>}
    ELSE LET shorter == SeqsUpTo(S, n - 1)
         IN  shorter \cup {Append(s, x) : s \in {t \in shorter : Len(t) = n - 1}, x \in S}

ArgTys ==
    { i1, i32, IntegerTy(40), DoubleTy, PointerTy,
      StructTy(<<i1>>, FALSE),
      StructTy(<<IntegerTy(40)>>, FALSE),
      StructTy(<<i8, i8, i8, i8>>, TRUE),
      StructTy(<<DoubleTy, DoubleTy>>, FALSE),
      StructTy(<<>>, FALSE),
      ArrayTy(IntegerTy(48), 1),
      VectorTy,
      StructTy(<<i8, VectorTy>>, TRUE) }

RetTys ==
    { void, i1, i32, PointerTy, FloatTy, DoubleTy,
      StructTy(<<DoubleTy, DoubleTy>>, FALSE),
      StructTy(<<i1>>, FALSE),
      StructTy(<<VectorTy>>, FALSE),
      ArrayTy(i32, 2),
      VectorTy }

Signatures == SeqsUpTo(ArgTys, MaxArgs)

\* compute_abi_info as the function of its inputs that lines 160-183 compute
RECURSIVE classify_args(_, _, _)
classify_args(tys, off, acc) ==
    IF tys = <<>> THEN acc
    ELSE LET c == classify_arg_ty(Head(tys), off)
         IN  classify_args(Tail(tys), c.offset, Append(acc, c.ret))

compute_abi_info(a, r, d) ==
    LET ret == IF d THEN classify_ret_ty(r) ELSE direct(void, None, None, None)
    IN  [arg_tys |-> classify_args(a, IF is_indirect(ret) THEN 4 ELSE 0, <<>>),
         ret_ty |-> ret]

\* types of the closed algebra, nested up to three levels
InnerTys ==
    { i8, IntegerTy(40), PointerTy, FloatTy, DoubleTy,
      StructTy(<<i8, i32>>, FALSE),
      StructTy(<<i8, DoubleTy>>, TRUE),
      StructTy(<<>>, FALSE) }
    \cup { ArrayTy(el, n) : el \in {IntegerTy(16), StructTy(<<DoubleTy, i1>>, FALSE)},
                            n \in 0..MaxLen }

LayoutTys ==
    InnerTys \cup { StructTy(els, p) : els \in SeqsUpTo(InnerTys, MaxFields),
                                       p \in BOOLEAN }

(***************************************************************************)
(* compute_abi_info, one action per step of its body.                      *)
(***************************************************************************)
SigInit ==
    /\ pc = "idle"
    /\ atys = <<>>
    /\ rty = void
    /\ ret_def = FALSE
    /\ ret_ty = direct(void, None, None, None)
    /\ arg_tys = <<>>
    /\ offset = 0
    /\ orig_offset = 0
    /\ calls = 0

FnOff ==
    /\ fn_pc = "off"
    /\ fn_ty = void
    /\ fn_bits = 0
    /\ fn_align = 0
    /\ fn_size = 0
    /\ fn_ints = <<>>
    /\ fn_cast = void

Init == SigInit /\ FnOff

\* the mutant of Call for C9: the offset is seeded on top of the value it last held
Call_keep_offset ==
    /\ pc = "idle"
    /\ calls < MaxCalls
    /\ calls' = calls + 1
    /\ \E a \in Signatures, r \in RetTys, d \in BOOLEAN :
          LET ret == IF d THEN classify_ret_ty(r) ELSE direct(void, None, None, None)
              sret == is_indirect(ret)
          IN  /\ atys' = a
              /\ rty' = r
              /\ ret_def' = d
              /\ ret_ty' = ret
              /\ arg_tys' = <<>>
              /\ offset' = offset + (IF sret THEN 4 ELSE 0)
    /\ pc' = "loop"
    /\ UNCHANGED <<orig_offset, fn_vars>>

\* lines 160-172: entry, classification of the return type, seeding of the offset
Call ==
    /\ pc = "idle"
    /\ calls < MaxCalls
    /\ calls' = calls + 1
    /\ \E a \in Signatures, r \in RetTys, d \in BOOLEAN :
          LET ret == IF d THEN classify_ret_ty(r) ELSE direct(void, None, None, None)
              sret == is_indirect(ret)
          IN  /\ atys' = a
              /\ rty' = r
              /\ ret_def' = d
              /\ ret_ty' = ret
              /\ arg_tys' = <<>>
              /\ offset' = IF sret THEN 4 ELSE 0
    /\ pc' = "loop"
    /\ UNCHANGED <<orig_offset, fn_vars>>

\* lines 174-177: one iteration of the loop, a call of classify_arg_ty
ClassifyArg ==
    /\ pc = "loop"
    /\ Len(arg_tys) < Len(atys)
    /\ LET aty == atys[Len(arg_tys) + 1]
       IN  IF classify_arg_panics(aty)
           THEN /\ pc' = "panicked"
                /\ orig_offset' = offset
                /\ UNCHANGED <<arg_tys, offset>>
           ELSE /\ orig_offset' = offset
                /\ offset' = classify_arg_ty(aty, offset).offset
                /\ arg_tys' = Append(arg_tys, classify_arg_ty(aty, offset).ret)
                /\ UNCHANGED pc
    /\ UNCHANGED <<atys, rty, ret_def, ret_ty, calls, fn_vars>>

\* lines 179-182: the FnType is returned
Return ==
    /\ pc = "loop"
    /\ Len(arg_tys) = Len(atys)
    /\ pc' = "returned"
    /\ UNCHANGED <<atys, rty, ret_def, ret_ty, arg_tys, offset, orig_offset, calls,
                   fn_vars>>

\* line 183: the frame is left; the caller owns the FnType, the offset dies with
\* the frame (its last value stays in its slot until line 172 seeds it again)
Leave ==
    /\ pc = "returned"
    /\ pc' = "idle"
    /\ atys' = <<>>
    /\ rty' = void
    /\ ret_def' = FALSE
    /\ ret_ty' = direct(void, None, None, None)
    /\ arg_tys' = <<>>
    /\ orig_offset' = 0
    /\ UNCHANGED <<offset, calls, fn_vars>>

Next == Call \/ ClassifyArg \/ Return \/ Leave

Spec == Init /\ [][Next]_vars

\* the FnType compute_abi_info returns (lines 179-182)
FnType == [arg_tys |-> arg_tys, ret_ty |-> ret_ty]

(***************************************************************************)
(* Single applications of the layout calculator and the coercion builder:  *)
(* the input is drawn by the initial state, one action applies a function. *)
(***************************************************************************)
FnInit ==
    /\ SigInit
    /\ \/ /\ fn_pc = "layout"
          /\ fn_ty \in LayoutTys
          /\ fn_bits = 0
       \/ /\ fn_pc = "coerce"
          /\ fn_ty = void
          /\ fn_bits \in 0..MaxBits
    /\ fn_align = 0
    /\ fn_size = 0
    /\ fn_ints = <<>>
    /\ fn_cast = void

\* ty_align and ty_size applied to fn_ty
Layout ==
    /\ fn_pc = "layout"
    /\ fn_align' = ty_align(fn_ty)
    /\ fn_size' = ty_size(fn_ty)
    /\ fn_pc' = "laid_out"
    /\ UNCHANGED <<fn_ty, fn_bits, fn_ints, fn_cast, sig_vars>>

\* struct_ty applied to an aggregate fn_ty, as classify_arg_ty does (line 110)
StructCast ==
    /\ fn_pc = "laid_out"
    /\ ~is_reg_ty(fn_ty)
    /\ fn_cast' = struct_ty(fn_ty)
    /\ fn_pc' = "cast"
    /\ UNCHANGED <<fn_ty, fn_bits, fn_align, fn_size, fn_ints, sig_vars>>

\* coerce_to_int applied to fn_bits
Coerce ==
    /\ fn_pc = "coerce"
    /\ fn_ints' = coerce_to_int(fn_bits)
    /\ fn_pc' = "coerced"
    /\ UNCHANGED <<fn_ty, fn_bits, fn_align, fn_size, fn_cast, sig_vars>>

FnNext == Layout \/ StructCast \/ Coerce

SpecFn == FnInit /\ [][FnNext]_vars

(***************************************************************************)
(* Vocabulary of the properties.                                           *)
(***************************************************************************)
Scalar(ty) == ty.kind \in {"Integer", "Pointer", "Float", "Double"}

Aggregate(ty) == ty.kind \in {"Struct", "Array"}

IsI1(ty) == ty.kind = "Integer" /\ ty.width = 1

RECURSIVE InAlgebra(_)
InAlgebra(ty) ==
    CASE Scalar(ty) -> TRUE
      [] ty.kind = "Struct" -> \A i \in 1..Len(ty.fields) : InAlgebra(ty.fields[i])
      [] ty.kind = "Array" -> InAlgebra(ty.elt)
      [] OTHER -> FALSE

\* ceil(x / a) * a: the one multiple of a in x .. x + a - 1
AlignUp(x, a) == CHOOSE m \in x..(x + a - 1) : m % a = 0

\* ceil(x / a)
CeilDiv(x, a) == CHOOSE n \in 0..x : n * a >= x /\ (n = 0 \/ (n - 1) * a < x)

\* ty_align clamped into [4, 8]
Clamped(ty) ==
    LET n == ty_align(ty) IN IF n < 4 THEN 4 ELSE IF n > 8 THEN 8 ELSE n

RECURSIVE SumSizes(_)
SumSizes(tys) == IF tys = <<>> THEN 0 ELSE ty_size(Head(tys)) + SumSizes(Tail(tys))

RECURSIVE SumWidths(_)
SumWidths(tys) == IF tys = <<>> THEN 0 ELSE Head(tys).width + SumWidths(Tail(tys))

\* the offset the loop starts from
Seed == IF ret_ty.kind = "Indirect" THEN 4 ELSE 0

\* the running offset the first argument sees (or would see) is n
FirstOffsetIs(n) ==
    /\ (pc = "loop" /\ arg_tys = <<>>) => offset = n
    /\ (pc \in {"loop", "returned"} /\ Len(arg_tys) = 1) => orig_offset = n
    /\ (pc = "panicked" /\ arg_tys = <<>>) => orig_offset = n

\* this step classified one more argument
Classified == pc = "loop" /\ pc' = "loop" /\ Len(arg_tys') = Len(arg_tys) + 1

(***************************************************************************)
(* C1: a call in which an inspected type (an argument type, the return     *)
(* type when ret_def is true, or a type nested in them) is outside the     *)
(* algebra never returns a FnType.                                         *)
(***************************************************************************)
C1_UnsupportedKindAborts ==
    pc = "returned" =>
        /\ \A k \in 1..Len(atys) : InAlgebra(atys[k])
        /\ ret_def => InAlgebra(rty)

(***************************************************************************)
(* C2: a Struct or Array argument has the 32-bit pad_type if its           *)
(* orig_offset is not a multiple of its clamped alignment, and no pad_type *)
(* if it is.                                                               *)
(***************************************************************************)
C2_PadIffMisaligned ==
    (pc \in {"loop", "returned"} /\ Len(arg_tys) >= 1) =>
        LET k == Len(arg_tys)
            a == Clamped(atys[k])
        IN  Aggregate(atys[k]) =>
                /\ orig_offset % a # 0 => arg_tys[k].pad = Some(IntegerTy(32))
                /\ orig_offset % a = 0 => arg_tys[k].pad = None

(***************************************************************************)
(* C3: a meaningful Struct or Array return type is Indirect with the       *)
(* struct-return marker and the first argument sees offset 4; a scalar or  *)
(* void return is Direct without the marker and the first argument sees    *)
(* offset 0.                                                               *)
(***************************************************************************)
C3_ReturnIndirection ==
    pc \in {"loop", "returned", "panicked"} =>
        /\ (ret_def /\ Aggregate(rty)) =>
                /\ ret_ty.kind = "Indirect"
                /\ ret_ty.attr = Some("StructRetAttribute")
                /\ FirstOffsetIs(4)
        /\ (~ret_def \/ Scalar(rty)) =>
                /\ ret_ty.kind = "Direct"
                /\ ret_ty.attr # Some("StructRetAttribute")
                /\ FirstOffsetIs(0)

C3_Witness ==
    /\ pc = "loop"
    /\ ret_def
    /\ rty.kind = "Struct"
    /\ ret_ty.kind = "Indirect"
    /\ Len(arg_tys) = 1
    /\ orig_offset = 4

(***************************************************************************)
(* C4: an unpacked struct is at least as large as the sum of its fields'   *)
(* sizes and its size is a multiple of its alignment; a packed struct's    *)
(* size is exactly that sum and its alignment is 1.                        *)
(***************************************************************************)
C4_StructLayout ==
    (fn_pc \in {"laid_out", "cast"} /\ fn_ty.kind = "Struct") =>
        IF fn_ty.packed
        THEN fn_size = SumSizes(fn_ty.fields) /\ fn_align = 1
        ELSE fn_size >= SumSizes(fn_ty.fields) /\ fn_size % fn_align = 0

C4_Witness ==
    /\ fn_pc = "laid_out"
    /\ fn_ty.kind = "Struct"
    /\ ~fn_ty.packed
    /\ Len(fn_ty.fields) = 2
    /\ fn_ty.fields[1].kind = "Struct"
    /\ fn_size > SumSizes(fn_ty.fields)
    /\ fn_align = 8

(***************************************************************************)
(* C5: coerce_to_int(s) is s div 32 chunks of 32 bits followed, iff        *)
(* s mod 32 > 0, by one chunk of s mod 32 bits: ceil(s/32) chunks whose    *)
(* widths sum to s, none iff s = 0; the cast type of an aggregate is       *)
(* ty_size * 8 bits wide.                                                  *)
(***************************************************************************)
C5_CoerceChunks ==
    /\ fn_pc = "coerced" =>
            /\ Len(fn_ints) = CeilDiv(fn_bits, 32)
            /\ SumWidths(fn_ints) = fn_bits
            /\ \A i \in 1..(fn_bits \div 32) : fn_ints[i] = IntegerTy(32)
            /\ fn_bits % 32 > 0 <=> Len(fn_ints) = fn_bits \div 32 + 1
            /\ fn_bits % 32 > 0 => fn_ints[Len(fn_ints)] = IntegerTy(fn_bits % 32)
            /\ fn_ints = <<>> <=> fn_bits = 0
    /\ fn_pc = "cast" =>
            /\ fn_cast.kind = "Struct"
            /\ SumWidths(fn_cast.fields) = fn_size * 8

C5_Witness ==
    /\ fn_pc = "coerced"
    /\ fn_bits = 72
    /\ fn_ints = <<IntegerTy(32), IntegerTy(32), IntegerTy(8)>>

(***************************************************************************)
(* C6: an ArgType carries the zero-extend attribute if and only if the     *)
(* type it classifies is exactly the 1-bit integer (for the return value:  *)
(* the return type when it is meaningful).                                 *)
(***************************************************************************)
C6_ZExtOnlyI1 ==
    pc \in {"loop", "returned"} =>
        /\ ret_ty.attr = Some("ZExtAttribute") <=> (ret_def /\ IsI1(rty))
        /\ \A k \in 1..Len(arg_tys) :
                arg_tys[k].attr = Some("ZExtAttribute") <=> IsI1(atys[k])

C6_Witness ==
    /\ pc = "returned"
    /\ Len(arg_tys) = 2
    /\ IsI1(atys[1])
    /\ arg_tys[1].attr = Some("ZExtAttribute")
    /\ atys[2] = StructTy(<<IntegerTy(1)>>, FALSE)
    /\ arg_tys[2].attr = None
    /\ ret_def
    /\ IsI1(rty)
    /\ ret_ty.attr = Some("ZExtAttribute")

(***************************************************************************)
(* C7: every argument ArgType is Direct; an Indirect ArgType (the return   *)
(* value only) has neither cast_type nor pad_type; a scalar argument has   *)
(* neither; a Struct or Array argument has a cast_type.                    *)
(***************************************************************************)
C7_ArgsDirect ==
    pc \in {"loop", "returned"} =>
        /\ \A k \in 1..Len(arg_tys) :
                /\ arg_tys[k].kind = "Direct"
                /\ Scalar(atys[k]) => arg_tys[k].cast = None /\ arg_tys[k].pad = None
                /\ Aggregate(atys[k]) => arg_tys[k].cast # None
        /\ ret_ty.kind = "Indirect" => ret_ty.cast = None /\ ret_ty.pad = None

C7_Witness ==
    /\ pc = "returned"
    /\ ret_ty.kind = "Indirect"
    /\ Len(arg_tys) = 2
    /\ Scalar(atys[1])
    /\ atys[2].kind = "Struct"
    /\ ty_size(atys[2]) = 16
    /\ arg_tys[2].kind = "Direct"
    /\ arg_tys[2].cast # None

(***************************************************************************)
(* C8: classifying an argument never lowers the running offset, leaves it  *)
(* equal only for an argument of size 0 at an aligned offset, and sets it  *)
(* to align_up(offset, a) + align_up(size_bits, a * 8) / 8 with a the      *)
(* alignment clamped into [4, 8].                                          *)
(***************************************************************************)
C8_OffsetMonotone ==
    [][Classified =>
        LET ty == atys[Len(arg_tys')]
            a == Clamped(ty)
        IN  /\ offset' >= offset
            /\ offset' = offset => (ty_size(ty) = 0 /\ offset % a = 0)
            /\ offset' = AlignUp(offset, a) + AlignUp(ty_size(ty) * 8, a * 8) \div 8
      ]_vars

C8_Witness ==
    /\ pc = "loop"
    /\ Len(arg_tys) = 2
    /\ ty_size(atys[2]) = 0
    /\ orig_offset > 0
    /\ offset = orig_offset

(***************************************************************************)
(* C9: the FnType an invocation returns is the one its inputs yield when   *)
(* invoked alone, whatever invocations came before it.                     *)
(***************************************************************************)
C9_PureFunction ==
    pc = "returned" => FnType = compute_abi_info(atys, rty, ret_def)

C9_Witness ==
    /\ pc = "returned"
    /\ calls >= 2
    /\ Len(arg_tys) = 2
    /\ arg_tys[2].pad # None

(***************************************************************************)
(* C10: the slot of argument k starts at start_k = align_up(orig_offset_k, *)
(* a_k), a multiple of a_k not below the seed; the offset after it is a    *)
(* multiple of a_k at least ty_size(type_k) beyond start_k; and the next   *)
(* slot starts at or after start_k + ty_size(type_k).                      *)
(***************************************************************************)
C10_SlotsDisjoint ==
    [][Classified =>
        LET k == Len(arg_tys')
            a == Clamped(atys[k])
            start == AlignUp(offset, a)
        IN  /\ start % a = 0
            /\ start >= Seed
            /\ offset' % a = 0
            /\ offset' - start >= ty_size(atys[k])
            /\ k >= 2 =>
                  start >= AlignUp(orig_offset, Clamped(atys[k - 1]))
                           + ty_size(atys[k - 1])
      ]_vars

C10_Witness ==
    /\ pc = "loop"
    /\ Len(arg_tys) = 2
    /\ ret_ty.kind = "Indirect"
    /\ AlignUp(orig_offset, Clamped(atys[2])) > orig_offset
    /\ ty_size(atys[1]) > 0

====
